---- MODULE Spec2Model ----
(***************************************************************************)
(* Model of wasm3-rs: the Runtime wrapper (src/src/runtime.rs) and the     *)
(* Trap / Wasm3Error / Error model (src/src/error.rs).                     *)
(*                                                                         *)
(* Pointers are opaque identities.  An engine status pointer is the name   *)
(* of the extern static it was read from; two pointers are equal iff they  *)
(* are the same identity, as `==` on `*const c_char` compares addresses.   *)
(***************************************************************************)
EXTENDS Integers, Sequences, FiniteSets, TLC

\* ------------------------------------------------------------------------
\* Bounds of the model
\* ------------------------------------------------------------------------
\* native runtimes the engine allocates in a run
MaxHandles == 2
\* Runtime values alive at the same time
MaxWrappers == 2
\* boxes (pinned closures, module byte buffers) allocated in a run
MaxAllocs == 2

\* ------------------------------------------------------------------------
\* Pointer identities
\* ------------------------------------------------------------------------
NULL == "null"
DANGLING == "NonNull::dangling"
MEM_BASE == "m3_memory"
FUNC_PTR == "IM3Function"

m3Err_trapOutOfBoundsMemoryAccess == "m3Err_trapOutOfBoundsMemoryAccess"
m3Err_trapDivisionByZero == "m3Err_trapDivisionByZero"
m3Err_trapIntegerOverflow == "m3Err_trapIntegerOverflow"
m3Err_trapIntegerConversion == "m3Err_trapIntegerConversion"
m3Err_trapIndirectCallTypeMismatch == "m3Err_trapIndirectCallTypeMismatch"
m3Err_trapTableIndexOutOfRange == "m3Err_trapTableIndexOutOfRange"
m3Err_trapExit == "m3Err_trapExit"
m3Err_trapAbort == "m3Err_trapAbort"
m3Err_trapUnreachable == "m3Err_trapUnreachable"
m3Err_trapStackOverflow == "m3Err_trapStackOverflow"
m3Err_functionLookupFailed == "m3Err_functionLookupFailed"
m3Err_mallocFailed == "m3Err_mallocFailed"

\* every non-null status pointer the source names
EnginePointers ==
  { m3Err_trapOutOfBoundsMemoryAccess, m3Err_trapDivisionByZero,
    m3Err_trapIntegerOverflow, m3Err_trapIntegerConversion,
    m3Err_trapIndirectCallTypeMismatch, m3Err_trapTableIndexOutOfRange,
    m3Err_trapExit, m3Err_trapAbort, m3Err_trapUnreachable,
    m3Err_trapStackOverflow, m3Err_functionLookupFailed, m3Err_mallocFailed }

\* ------------------------------------------------------------------------
\* error.rs : Trap, Wasm3Error, Error
\* ------------------------------------------------------------------------
Trap ==
  { "OutOfBoundsMemoryAccess", "DivisionByZero", "IntegerOverflow",
    "IntegerConversion", "IndirectCallTypeMismatch", "TableIndexOutOfRange",
    "Exit", "Abort", "Unreachable", "StackOverflow" }

\* Trap::as_ptr with two arms pointing at the same sentinel
as_ptr_swapped(trap) ==
  CASE trap = "OutOfBoundsMemoryAccess" -> m3Err_trapOutOfBoundsMemoryAccess
    [] trap = "DivisionByZero" -> m3Err_trapDivisionByZero
    [] trap = "IntegerOverflow" -> m3Err_trapIntegerOverflow
    [] trap = "IntegerConversion" -> m3Err_trapIntegerOverflow
    [] trap = "IndirectCallTypeMismatch" -> m3Err_trapIndirectCallTypeMismatch
    [] trap = "TableIndexOutOfRange" -> m3Err_trapTableIndexOutOfRange
    [] trap = "Exit" -> m3Err_trapExit
    [] trap = "Abort" -> m3Err_trapAbort
    [] trap = "Unreachable" -> m3Err_trapUnreachable
    [] trap = "StackOverflow" -> m3Err_trapStackOverflow

\* Trap::as_ptr
as_ptr(trap) ==
  CASE trap = "OutOfBoundsMemoryAccess" -> m3Err_trapOutOfBoundsMemoryAccess
    [] trap = "DivisionByZero" -> m3Err_trapDivisionByZero
    [] trap = "IntegerOverflow" -> m3Err_trapIntegerOverflow
    [] trap = "IntegerConversion" -> m3Err_trapIntegerConversion
    [] trap = "IndirectCallTypeMismatch" -> m3Err_trapIndirectCallTypeMismatch
    [] trap = "TableIndexOutOfRange" -> m3Err_trapTableIndexOutOfRange
    [] trap = "Exit" -> m3Err_trapExit
    [] trap = "Abort" -> m3Err_trapAbort
    [] trap = "Unreachable" -> m3Err_trapUnreachable
    [] trap = "StackOverflow" -> m3Err_trapStackOverflow

\* Wasm3Error(ptr): the wrapper carries nothing but the pointer
Wasm3Error(ptr) == ptr

\* From<Trap> for Wasm3Error
Wasm3ErrorFromTrap(trap) == Wasm3Error(as_ptr(trap))

\* Wasm3Error::is_trap
is_trap(wasm3, trap) == as_ptr(trap) = wasm3

\* From<Wasm3Error> for Trap whose fallback arm is Unreachable
TrapFromWasm3Error_fallback(wasm3) ==
  IF wasm3 = m3Err_trapOutOfBoundsMemoryAccess THEN "OutOfBoundsMemoryAccess"
  ELSE IF wasm3 = m3Err_trapDivisionByZero THEN "DivisionByZero"
  ELSE IF wasm3 = m3Err_trapIntegerOverflow THEN "IntegerOverflow"
  ELSE IF wasm3 = m3Err_trapIntegerConversion THEN "IntegerConversion"
  ELSE IF wasm3 = m3Err_trapIndirectCallTypeMismatch THEN "IndirectCallTypeMismatch"
  ELSE IF wasm3 = m3Err_trapTableIndexOutOfRange THEN "TableIndexOutOfRange"
  ELSE IF wasm3 = m3Err_trapExit THEN "Exit"
  ELSE IF wasm3 = m3Err_trapAbort THEN "Abort"
  ELSE IF wasm3 = m3Err_trapUnreachable THEN "Unreachable"
  ELSE IF wasm3 = m3Err_trapStackOverflow THEN "StackOverflow"
  ELSE "Unreachable"

\* From<Wasm3Error> for Trap: guards tried top to bottom, first match wins
TrapFromWasm3Error(wasm3) ==
  IF wasm3 = m3Err_trapOutOfBoundsMemoryAccess THEN "OutOfBoundsMemoryAccess"
  ELSE IF wasm3 = m3Err_trapDivisionByZero THEN "DivisionByZero"
  ELSE IF wasm3 = m3Err_trapIntegerOverflow THEN "IntegerOverflow"
  ELSE IF wasm3 = m3Err_trapIntegerConversion THEN "IntegerConversion"
  ELSE IF wasm3 = m3Err_trapIndirectCallTypeMismatch THEN "IndirectCallTypeMismatch"
  ELSE IF wasm3 = m3Err_trapTableIndexOutOfRange THEN "TableIndexOutOfRange"
  ELSE IF wasm3 = m3Err_trapExit THEN "Exit"
  ELSE IF wasm3 = m3Err_trapAbort THEN "Abort"
  ELSE IF wasm3 = m3Err_trapUnreachable THEN "Unreachable"
  ELSE IF wasm3 = m3Err_trapStackOverflow THEN "StackOverflow"
  ELSE "Abort"

\* enum Error; `ptr` is the wrapped Wasm3Error of Error::Wasm3, NULL otherwise
ErrWasm3(wasm3) == [tag |-> "Wasm3", ptr |-> wasm3]
ErrInvalidFunctionSignature == [tag |-> "InvalidFunctionSignature", ptr |-> NULL]
ErrFunctionNotFound == [tag |-> "FunctionNotFound", ptr |-> NULL]
ErrModuleNotFound == [tag |-> "ModuleNotFound", ptr |-> NULL]
ErrModuleLoadEnvMismatch == [tag |-> "ModuleLoadEnvMismatch", ptr |-> NULL]
ErrRuntimeIsActive == [tag |-> "RuntimeIsActive", ptr |-> NULL]
\* Ok(..) of a Result
Ok == [tag |-> "Ok", ptr |-> NULL]

SemanticErrors ==
  { ErrInvalidFunctionSignature, ErrFunctionNotFound, ErrModuleNotFound,
    ErrModuleLoadEnvMismatch, ErrRuntimeIsActive }

\* Error::into_trap
into_trap(error) ==
  LET wasm3_err == IF error.tag = "Wasm3" THEN error.ptr
                   ELSE Wasm3Error(m3Err_trapAbort)
  IN TrapFromWasm3Error(wasm3_err)

\* Error::from_ffi_res that wraps the lookup-failed sentinel like any other
from_ffi_res_nolookup(ptr) ==
  IF ptr = NULL THEN Ok
  ELSE ErrWasm3(Wasm3Error(ptr))

\* Error::from_ffi_res
from_ffi_res(ptr) ==
  IF ptr = NULL THEN Ok
  ELSE IF ptr = m3Err_functionLookupFailed THEN ErrFunctionNotFound
  ELSE ErrWasm3(Wasm3Error(ptr))

\* Error::malloc_error
malloc_error == ErrWasm3(Wasm3Error(m3Err_mallocFailed))


\* ------------------------------------------------------------------------
\* runtime.rs : the pure part of each operation
\* ------------------------------------------------------------------------
\* Option<Environment>::None
None == "None"
\* the environments of the caller
Envs == {"envA", "envB"}

\* Runtime::load_module with the engine linked before the two checks
load_module_link_first(environment, module_env, link_status) ==
  LET res == from_ffi_res(link_status)
  IN IF environment = None
       THEN [result |-> ErrRuntimeIsActive, link_called |-> TRUE, push |-> FALSE]
     ELSE IF environment # module_env
       THEN [result |-> ErrModuleLoadEnvMismatch, link_called |-> TRUE, push |-> FALSE]
     ELSE IF res # Ok
       THEN [result |-> res, link_called |-> TRUE, push |-> FALSE]
     ELSE [result |-> Ok, link_called |-> TRUE, push |-> TRUE]

\* Runtime::load_module without the `?` after the link: the buffer is pushed
\* whatever the engine answered
load_module_push_always(environment, module_env, link_status) ==
  LET res == from_ffi_res(link_status)
  IN IF environment = None
       THEN [result |-> ErrRuntimeIsActive, link_called |-> FALSE, push |-> FALSE]
     ELSE IF environment # module_env
       THEN [result |-> ErrModuleLoadEnvMismatch, link_called |-> FALSE, push |-> FALSE]
     ELSE [result |-> res, link_called |-> TRUE, push |-> TRUE]

\* Runtime::load_module: what it returns, whether m3_LoadModule is called and
\* whether module.take_data() is pushed on module_data
load_module(environment, module_env, link_status) ==
  LET res == from_ffi_res(link_status)
  IN IF environment = None
       THEN [result |-> ErrRuntimeIsActive, link_called |-> FALSE, push |-> FALSE]
     ELSE IF environment # module_env
       THEN [result |-> ErrModuleLoadEnvMismatch, link_called |-> FALSE, push |-> FALSE]
     ELSE IF res # Ok
       THEN [result |-> res, link_called |-> TRUE, push |-> FALSE]
     ELSE [result |-> Ok, link_called |-> TRUE, push |-> TRUE]

\* Runtime::parse_and_load_module; parse_res is what Module::parse returned,
\* a parsed module carrying the environment it was parsed with
parse_and_load_module(environment, parse_res, link_status) ==
  IF environment = None
    THEN [result |-> ErrRuntimeIsActive, link_called |-> FALSE, push |-> FALSE]
  ELSE IF parse_res # Ok
    THEN [result |-> parse_res, link_called |-> FALSE, push |-> FALSE]
  ELSE load_module(environment, environment, link_status)

\* Runtime::find_function; from_raw_res is what Function::from_raw returned
find_function(status, func_raw, from_raw_res) ==
  LET res == from_ffi_res(status)
  IN IF res # Ok THEN res
     ELSE IF func_raw = NULL THEN ErrFunctionNotFound
     ELSE from_raw_res

\* ------------------------------------------------------------------------
\* Machine integers.  A value is its bit pattern, a little-endian sequence
\* of 16-bit limbs; u32 has two limbs, isize/usize have PtrWidth / 16.
\* ------------------------------------------------------------------------
LimbBase == 65536
SignLimb == 32768
\* the widths of the targets that have std, which Runtime::memory uses
PtrWidths == {32, 64}

Limbs(width) == width \div 16

\* u32 from its high and low halves
U32(hi, lo) == <<lo, hi>>

\* `x as isize` / `x as usize` for x: u32 : truncate or zero-extend the bits
cast_u32(x, width) ==
  [i \in 1..Limbs(width) |-> IF i <= Len(x) THEN x[i] ELSE 0]

\* isize::MAX
isize_MAX(width) ==
  [i \in 1..Limbs(width) |-> IF i = Limbs(width) THEN SignLimb - 1 ELSE LimbBase - 1]

\* the sign bit of a two's complement value
IsNegative(x) == x[Len(x)] >= SignLimb

\* unsigned a > b on equal-length bit patterns, from the top limb down
RECURSIVE UnsignedGt(_, _, _)
UnsignedGt(a, b, i) ==
  IF i = 0 THEN FALSE
  ELSE IF a[i] # b[i] THEN a[i] > b[i]
  ELSE UnsignedGt(a, b, i - 1)

\* a > b on isize
SignedGt(a, b) ==
  IF IsNegative(a) # IsNegative(b) THEN IsNegative(b)
  ELSE UnsignedGt(a, b, Len(a))

\* slice::from_raw_parts_mut(data, len): the slice; a len above isize::MAX
\* breaks its safety contract, and the build then either makes the slice all
\* the same or aborts on the checked precondition
Slice(data, len) == [tag |-> "slice", ptr |-> data, len |-> len]
PANIC == [tag |-> "panic", ptr |-> NULL, len |-> <<>>]
from_raw_parts_mut(width, data, len) ==
  IF UnsignedGt(len, isize_MAX(width), Limbs(width))
    THEN {Slice(data, len), PANIC}
    ELSE {Slice(data, len)}

\* Runtime::memory: the views it may return
memory(width, data, len) ==
  IF data = NULL \/ SignedGt(cast_u32(len, width), isize_MAX(width))
    THEN from_raw_parts_mut(width, DANGLING, cast_u32(U32(0, 0), width))
    ELSE from_raw_parts_mut(width, data, cast_u32(len, width))


\* ------------------------------------------------------------------------
\* State
\* ------------------------------------------------------------------------
VARIABLES
  engine,     \* the engine's runtimes: per native handle, the environment it
              \* was created in (None: not allocated), the number of
              \* m3_FreeRuntime calls on it, and the buffers of the modules
              \* linked on it, in link order
  ffi,        \* the engine function the call just made invoked, "none" if none
  envs,       \* per environment: reference count and whether the caller still
              \* holds its own reference
  rt,         \* the Runtime values that exist, oldest first: raw,
              \* environment, closure_store, module_data, and the steps of its
              \* drop that have run
  heap,       \* the addresses of the boxes (pinned closures, module byte
              \* buffers) that are allocated
  result,     \* the Result the call just made returned, until the caller
              \* has taken it
  target_pointer_width,  \* the width of isize/usize of the build
  call,       \* a call of a pure function: its arguments
  ret         \* and its result

vars ==
  <<engine, ffi, envs, rt, heap, result, target_pointer_width, call, ret>>

Handles == 1..MaxHandles
Wrappers == 1..MaxWrappers
Addrs == 1..MaxAllocs

\* the steps of dropping a Runtime, in order: Drop::drop, then the fields in
\* declaration order (raw is a NonNull and has nothing to drop)
DropOrder_fields_first ==
  <<"environment", "closure_store", "module_data", "Drop::drop">>

DropOrder_environment_first ==
  <<"environment", "Drop::drop", "closure_store", "module_data">>

DropOrder ==
  <<"Drop::drop", "environment", "closure_store", "module_data">>

\* Drop::drop calling m3_FreeRuntime whatever the environment is
drop_frees_always(environment) == TRUE

\* Drop::drop: whether it calls m3_FreeRuntime
drop_frees(environment) == environment # None

\* Environment::clone and the drop of an Environment, on its reference count
EnvClone(e) == [envs EXCEPT ![e].rc = @ + 1]
EnvDrop(e) == [envs EXCEPT ![e].rc = @ - 1]
EnvReleased(e) == envs[e].rc = 0

\* a Runtime as its constructors build it
NewRuntime(raw, environment) ==
  [pc |-> "live", raw |-> raw, environment |-> environment,
   closure_store |-> <<>>, module_data |-> <<>>, dropped |-> {}]

\* s without its i-th element
Remove(s, i) == SubSeq(s, 1, i - 1) \o SubSeq(s, i + 1, Len(s))

Least(S) == CHOOSE x \in S : \A y \in S : x <= y

FreeHandles ==
  {h \in Handles : engine[h].environment = None /\ engine[h].freeCalls = 0}
Live(w) == w <= Len(rt) /\ rt[w].pc = "live"
\* a new box gets an address that is not allocated; the allocator knows
\* nothing of the handles, so the address of a freed box is given out again
\* even while a handle still has the freed box registered
FreeAddrs == Addrs \ heap

\* the handle is allocated; m3_FreeRuntime destroys all of a runtime
Unreleased(h) == engine[h].environment # None

\* no Result: nothing was called, or the call returns none
NoResult == [tag |-> "none", ptr |-> NULL]

\* single-threaded: no call starts while a Runtime is being dropped or before
\* the caller has taken the result of the previous call
Dropping == \E w \in 1..Len(rt) : rt[w].pc = "dropping"
Idle == ~Dropping /\ result = NoResult /\ ffi = "none"

NoCall == [op |-> "none"]
NoRet == [tag |-> "none"]

Init ==
  /\ engine = [h \in Handles |->
                 [environment |-> None, freeCalls |-> 0, modules |-> <<>>]]
  /\ ffi = "none"
  /\ envs = [e \in Envs |-> [rc |-> 1, caller |-> TRUE]]
  /\ rt = <<>>
  /\ heap = {}
  /\ result = NoResult
  /\ target_pointer_width = 64
  /\ call = NoCall
  /\ ret = NoRet

\* ------------------------------------------------------------------------
\* Operations on a Runtime
\* ------------------------------------------------------------------------
\* Runtime::new(environment, stack_size); raw is what m3_NewRuntime returned
RuntimeNew(e, raw) ==
  /\ Idle
  /\ envs[e].caller
  /\ ffi' = "m3_NewRuntime"
  /\ IF raw = NULL
       THEN /\ result' = malloc_error
            /\ UNCHANGED <<engine, envs, rt>>
       ELSE /\ FreeHandles # {} /\ Len(rt) < MaxWrappers
            /\ LET h == Least(FreeHandles)
               IN /\ engine' = [engine EXCEPT ![h].environment = e]
                  /\ envs' = EnvClone(e)
                  /\ rt' = Append(rt, NewRuntime(h, e))
                  /\ result' = Ok
  /\ UNCHANGED <<heap, target_pointer_width, call, ret>>

\* Runtime::from_raw(raw), on the handle the engine passes to a host call
FromRaw(h) ==
  /\ Idle
  /\ Unreleased(h)
  /\ Len(rt) < MaxWrappers
  /\ rt' = Append(rt, NewRuntime(h, None))
  /\ result' = NoResult
  /\ ffi' = "none"
  /\ UNCHANGED <<engine, envs, heap, target_pointer_width, call, ret>>

\* the effects of a load on Runtime w: the engine links the module when
\* m3_LoadModule is called and answers NULL; module.take_data() is pushed on
\* module_data
Load(w, link_status, outcome) ==
  LET b == Least(FreeAddrs)
      r == rt[w]
  IN /\ ffi' = IF outcome.link_called THEN "m3_LoadModule" ELSE "none"
     /\ engine' = IF outcome.link_called /\ link_status = NULL
                    THEN [engine EXCEPT ![r.raw].modules = Append(@, b)]
                    ELSE engine
     /\ rt' = IF outcome.push
                THEN [rt EXCEPT ![w].module_data = Append(@, b)]
                ELSE rt
     /\ heap' = IF outcome.push THEN heap \cup {b} ELSE heap
     /\ result' = outcome.result
     /\ UNCHANGED <<envs, target_pointer_width, call, ret>>

\* Runtime::load_module(module); the module was parsed in module_env
LoadModule(w, module_env, link_status) ==
  /\ Idle
  /\ Live(w)
  /\ ~EnvReleased(module_env)
  /\ FreeAddrs # {}
  /\ Load(w, link_status,
          load_module(rt[w].environment, module_env, link_status))

\* Runtime::parse_and_load_module(bytes)
ParseAndLoadModule(w, parse_res, link_status) ==
  /\ Idle
  /\ Live(w)
  /\ FreeAddrs # {}
  /\ Load(w, link_status,
          parse_and_load_module(rt[w].environment, parse_res, link_status))

\* Runtime::find_function(name)
FindFunction(w, status, func_raw, from_raw_res) ==
  /\ Idle
  /\ Live(w)
  /\ result' = find_function(status, func_raw, from_raw_res)
  /\ ffi' = "m3_FindFunction"
  /\ UNCHANGED <<engine, envs, rt, heap, target_pointer_width, call, ret>>

\* Runtime::memory()
Memory(w, data, len) ==
  /\ Idle
  /\ Live(w)
  /\ result' \in memory(target_pointer_width, data, len)
  /\ ffi' = "m3_GetMemory"
  /\ UNCHANGED <<engine, envs, rt, heap, target_pointer_width, call, ret>>

\* Runtime::push_closure(closure); the closure is a fresh pinned box,
\* registered against the handle of the Runtime for as long as it is in the
\* closure_store
PushClosure(w) ==
  /\ Idle
  /\ Live(w)
  /\ FreeAddrs # {}
  /\ LET a == Least(FreeAddrs)
     IN /\ heap' = heap \cup {a}
        /\ rt' = [rt EXCEPT ![w].closure_store = Append(@, a)]
  /\ result' = NoResult
  /\ ffi' = "none"
  /\ UNCHANGED <<engine, envs, target_pointer_width, call, ret>>

Range(s) == {s[i] : i \in 1..Len(s)}

\* one step of dropping Runtime w: m3_FreeRuntime destroys the native
\* runtime and all it refers to, a Vec frees its boxes.  The fields keep their
\* values until the last step, after which the value is gone
Teardown(w, step) ==
  LET r == rt[w]
      frees == step = "Drop::drop" /\ drop_frees(r.environment)
  IN /\ ffi' = IF frees THEN "m3_FreeRuntime" ELSE "none"
     /\ engine' = IF frees
                    THEN [engine EXCEPT ![r.raw].freeCalls = @ + 1,
                                        ![r.raw].environment = None,
                                        ![r.raw].modules = <<>>]
                    ELSE engine
     /\ envs' = IF step = "environment" /\ r.environment # None
                  THEN EnvDrop(r.environment)
                  ELSE envs
     /\ heap' = IF step = "closure_store" THEN heap \ Range(r.closure_store)
                ELSE IF step = "module_data" THEN heap \ Range(r.module_data)
                ELSE heap
     /\ rt' = IF Cardinality(r.dropped) + 1 = Len(DropOrder)
                THEN Remove(rt, w)
                ELSE [rt EXCEPT ![w].pc = "dropping",
                                ![w].dropped = @ \cup {step}]
     /\ result' = NoResult
     /\ UNCHANGED <<target_pointer_width, call, ret>>

\* drop(runtime): Drop::drop runs.  A Runtime made by from_raw lives inside one
\* host call, so the owner of its handle is not dropped before it
Drop(w) ==
  /\ Idle
  /\ Live(w)
  /\ rt[w].environment # None =>
       \A v \in 1..Len(rt) : v # w => rt[v].raw # rt[w].raw
  /\ Teardown(w, DropOrder[1])

\* the drop glue of the fields, which follows Drop::drop
DropFields(w) ==
  /\ w <= Len(rt)
  /\ rt[w].pc = "dropping"
  /\ Teardown(w, DropOrder[Cardinality(rt[w].dropped) + 1])

\* the caller drops its own Environment
DropEnvironment(e) ==
  /\ Idle
  /\ envs[e].caller
  /\ envs' = [EnvDrop(e) EXCEPT ![e].caller = FALSE]
  /\ result' = NoResult
  /\ ffi' = "none"
  /\ UNCHANGED <<engine, rt, heap, target_pointer_width, call, ret>>

\* the caller takes the result of the call
Return ==
  /\ ~Dropping
  /\ result # NoResult \/ ffi # "none"
  /\ result' = NoResult
  /\ ffi' = "none"
  /\ UNCHANGED <<engine, envs, rt, heap, target_pointer_width, call, ret>>

\* what the engine and the collaborators may answer
LinkStatuses == {NULL, m3Err_functionLookupFailed, m3Err_mallocFailed}
\* m3_FindFunction sets the handle when it answers NULL, Function::from_raw
\* then accepts it or not; or it sets nothing
FindAnswers ==
  {<<NULL, FUNC_PTR, Ok>>, <<NULL, FUNC_PTR, ErrInvalidFunctionSignature>>,
   <<NULL, NULL, Ok>>, <<m3Err_functionLookupFailed, NULL, Ok>>,
   <<m3Err_mallocFailed, NULL, Ok>>}
\* Module::parse fails, or the engine is asked to link the parsed module
ParseAnswers ==
  {<<malloc_error, NULL>>} \cup {<<Ok, s>> : s \in LinkStatuses}

Next ==
  \/ \E e \in Envs, raw \in {NULL, "M3Runtime"} : RuntimeNew(e, raw)
  \/ \E h \in Handles : FromRaw(h)
  \/ \E w \in Wrappers, e \in Envs, s \in LinkStatuses : LoadModule(w, e, s)
  \/ \E w \in Wrappers, a \in ParseAnswers : ParseAndLoadModule(w, a[1], a[2])
  \/ \E w \in Wrappers, a \in FindAnswers : FindFunction(w, a[1], a[2], a[3])
  \/ \E w \in Wrappers, d \in {NULL, MEM_BASE} : Memory(w, d, U32(1, 0))
  \/ \E w \in Wrappers : PushClosure(w)
  \/ \E w \in Wrappers : Drop(w)
  \/ \E w \in Wrappers : DropFields(w)
  \/ \E e \in Envs : DropEnvironment(e)
  \/ Return

Spec == Init /\ [][Next]_vars


\* ------------------------------------------------------------------------
\* The pure functions, each applied once to arguments drawn at the start
\* ------------------------------------------------------------------------
StatusPointers == {NULL} \cup EnginePointers

MemoryLens ==
  { U32(0, 0), U32(0, 1), U32(0, 32767), U32(0, 32768), U32(0, 65535),
    U32(1, 0), U32(32767, 65535), U32(32768, 0), U32(65535, 65535) }

Calls ==
  [op : {"memory"}, data : {NULL, MEM_BASE}, len : MemoryLens]
  \cup [op : {"find_function"}, status : StatusPointers,
        func_raw : {NULL, FUNC_PTR},
        from_raw_res : {Ok, ErrInvalidFunctionSignature}]
  \cup [op : {"load_module"}, environment : {None} \cup Envs,
        module_env : Envs, link_status : StatusPointers]
  \cup [op : {"trap_round_trip"}, trap : Trap]
  \cup [op : {"into_trap"},
        error : {ErrWasm3(Wasm3Error(p)) : p \in EnginePointers}
                  \cup SemanticErrors]

Returned(value) == [tag |-> "returned", value |-> value]

InitFFI ==
  /\ engine = [h \in Handles |->
                 [environment |-> None, freeCalls |-> 0, modules |-> <<>>]]
  /\ ffi = "none"
  /\ envs = [e \in Envs |-> [rc |-> 1, caller |-> TRUE]]
  /\ rt = <<>>
  /\ heap = {}
  /\ result = NoResult
  /\ target_pointer_width \in PtrWidths
  /\ call \in Calls
  /\ ret = NoRet

Pending(op) == call.op = op /\ ret = NoRet

UnchangedRuntime ==
  UNCHANGED <<engine, ffi, envs, rt, heap, result, target_pointer_width, call>>

CallMemory ==
  /\ Pending("memory")
  /\ \E view \in memory(target_pointer_width, call.data, call.len) :
       ret' = Returned(view)
  /\ UnchangedRuntime

CallFindFunction ==
  /\ Pending("find_function")
  /\ ret' = Returned(find_function(call.status, call.func_raw, call.from_raw_res))
  /\ UnchangedRuntime

CallLoadModule ==
  /\ Pending("load_module")
  /\ ret' = Returned(load_module(call.environment, call.module_env,
                                 call.link_status))
  /\ UnchangedRuntime

\* Trap -> Wasm3Error -> Trap
CallTrapRoundTrip ==
  /\ Pending("trap_round_trip")
  /\ ret' = Returned(TrapFromWasm3Error(Wasm3ErrorFromTrap(call.trap)))
  /\ UnchangedRuntime

CallIntoTrap ==
  /\ Pending("into_trap")
  /\ ret' = Returned(into_trap(call.error))
  /\ UnchangedRuntime

NextFFI ==
  \/ CallMemory
  \/ CallFindFunction
  \/ CallLoadModule
  \/ CallTrapRoundTrip
  \/ CallIntoTrap

SpecFFI == InitFFI /\ [][NextFFI]_vars


\* ------------------------------------------------------------------------
\* Properties of the Runtime life cycle (Spec)
\* ------------------------------------------------------------------------
IsPrefix(s, t) == Len(s) <= Len(t) /\ SubSeq(t, 1, Len(s)) = s
Owning(r) == r.environment # None
Runtimes == {rt[w] : w \in 1..Len(rt)}

\* C1: m3_FreeRuntime has been called on a handle exactly once when the owning
\* Runtime built around it by Runtime::new has been dropped, and not at all
\* before; the drop of a Runtime made by from_raw calls nothing and changes
\* nothing in the engine; a Runtime::new that fails releases nothing.
C1_FreeCalls ==
  /\ \A h \in Handles :
       /\ engine[h].freeCalls <= 1
       /\ Unreleased(h) =>
            /\ engine[h].freeCalls = 0
            /\ \E r \in Runtimes :
                 Owning(r) /\ r.raw = h /\ "Drop::drop" \notin r.dropped
  /\ \A r \in Runtimes :
       Owning(r) =>
         engine[r.raw].freeCalls = IF "Drop::drop" \in r.dropped THEN 1 ELSE 0
C1_Step ==
  /\ \A w \in 1..Len(rt) :
       (/\ rt[w].pc = "live" /\ ~Owning(rt[w])
        /\ w <= Len(rt') /\ rt'[w].pc = "dropping")
       => ffi' = "none" /\ engine' = engine
  /\ (ffi' = "m3_NewRuntime" /\ result' = malloc_error)
       => UNCHANGED <<engine, envs, rt, heap>>
C1_FreeRuntimeOnce == [](C1_FreeCalls) /\ [][C1_Step]_vars
\* an owning Runtime has been dropped whole and its handle was freed once
C1_Witness ==
  \E h \in Handles :
    /\ engine[h].freeCalls = 1
    /\ \A r \in Runtimes : r.raw # h

\* C2: load_module on a Runtime without environment returns RuntimeIsActive,
\* on one whose environment is not the module's it returns
\* ModuleLoadEnvMismatch, and in both cases m3_LoadModule is not called and
\* nothing changes; with the module's environment and a NULL link status it
\* returns Ok.
C2_NoLinkOnReject ==
  result \in {ErrRuntimeIsActive, ErrModuleLoadEnvMismatch} => ffi = "none"
C2_Step ==
  (result = NoResult /\ result' # NoResult) =>
    \A w \in 1..Len(rt), e \in Envs, s \in LinkStatuses :
      (/\ result' = load_module(rt[w].environment, e, s).result
       /\ LoadModule(w, e, s)) =>
        /\ ~Owning(rt[w]) => result' = ErrRuntimeIsActive
        /\ Owning(rt[w]) /\ rt[w].environment # e
             => result' = ErrModuleLoadEnvMismatch
        /\ result' \in {ErrRuntimeIsActive, ErrModuleLoadEnvMismatch}
             => ffi' = "none" /\ UNCHANGED <<engine, envs, rt, heap>>
        /\ rt[w].environment = e /\ s = NULL
             => result' = Ok /\ ffi' = "m3_LoadModule"
C2_LoadPreconditions == [](C2_NoLinkOnReject) /\ [][C2_Step]_vars
\* a load was rejected for its environment
C2_Witness == result = ErrModuleLoadEnvMismatch /\ ffi = "none"

\* C3: module_data of a live Runtime is exactly the buffers of the modules
\* the engine has linked on its handle, in link order, all allocated and
\* pairwise distinct; a call that returns an error leaves every module_data
\* as it was; module_data only grows at its end while the Runtime lives.
C3_Registry ==
  \A r \in Runtimes :
    r.pc = "live" =>
      /\ r.module_data = IF Owning(r) THEN engine[r.raw].modules ELSE <<>>
      /\ Range(r.module_data) \subseteq heap
      /\ Cardinality(Range(r.module_data)) = Len(r.module_data)
C3_Step ==
  /\ result'.tag \notin {"none", "Ok", "slice", "panic"}
       => UNCHANGED <<rt, heap, engine>>
  /\ \A w \in 1..Len(rt), v \in 1..Len(rt') :
       (/\ rt[w].pc = "live" /\ rt'[v].pc = "live"
        /\ Owning(rt[w]) /\ Owning(rt'[v]) /\ rt[w].raw = rt'[v].raw)
       => IsPrefix(rt[w].module_data, rt'[v].module_data)
C3_AppendOnly == [](C3_Registry) /\ [][C3_Step]_vars
\* two modules were loaded one after the other into one Runtime
C3_Witness ==
  \E r \in Runtimes :
    r.pc = "live" /\ Len(r.module_data) = 2 /\ result = Ok /\ ffi = "m3_LoadModule"

\* C4: while the handle of an owning Runtime is unreleased, every closure in
\* its closure_store and every buffer in its module_data is allocated, at
\* every step of its drop too.
C4_HandleFirst ==
  \A r \in Runtimes :
    Owning(r) /\ Unreleased(r.raw) =>
      Range(r.closure_store) \cup Range(r.module_data) \subseteq heap
\* an owning Runtime with a closure and a module is being dropped: its handle
\* is released, its closures are freed
C4_Witness ==
  \E r \in Runtimes :
    /\ Owning(r) /\ r.pc = "dropping" /\ "closure_store" \in r.dropped
    /\ r.closure_store # <<>> /\ r.module_data # <<>>
    /\ Range(r.closure_store) \cap heap = {}
    /\ engine[r.raw].freeCalls = 1

\* C9: a closure in the closure_store of a Runtime, whichever constructor
\* made it, is freed only when the handle of that Runtime, against which
\* push_closure registered it, has been released.
C9_Step ==
  \A w \in 1..Len(rt) :
    \A a \in Range(rt[w].closure_store) :
      (a \in heap /\ a \notin heap') => ~Unreleased(rt[w].raw)
C9_ClosuresOutliveHandle == [][C9_Step]_vars

\* C10: an environment is not released while a handle created in it is
\* unreleased; its reference count is the caller's reference plus one for
\* each owning Runtime that has not dropped its environment field.
C10_EnvironmentOutlivesHandles ==
  /\ \A h \in Handles : Unreleased(h) => ~EnvReleased(engine[h].environment)
  /\ \A e \in Envs :
       envs[e].rc =
         (IF envs[e].caller THEN 1 ELSE 0)
         + Cardinality({w \in 1..Len(rt) :
              rt[w].environment = e /\ "environment" \notin rt[w].dropped})
\* the last reference to an environment was given up by a Runtime being
\* dropped, after the caller had dropped its own
C10_Witness ==
  \E r \in Runtimes, e \in Envs :
    /\ r.environment = e /\ "environment" \in r.dropped
    /\ ~envs[e].caller /\ EnvReleased(e)
    /\ engine[r.raw].freeCalls = 1


\* ------------------------------------------------------------------------
\* Properties of the pure functions (SpecFFI)
\* ------------------------------------------------------------------------
HasReturned(op) == call.op = op /\ ret # NoRet

\* the bits of x as a 64-bit unsigned value
ZeroExtend(x) == [i \in 1..4 |-> IF i <= Len(x) THEN x[i] ELSE 0]
\* the u32 len is at most isize::MAX of the build
Representable(len, width) ==
  ~UnsignedGt(ZeroExtend(len), ZeroExtend(isize_MAX(width)), 4)

\* C5: memory() returns a zero-length view at the dangling address when the
\* engine's pointer is null or its length is above isize::MAX of the build,
\* and the view with the engine's pointer and length otherwise.
C5_MemoryViewSafe ==
  HasReturned("memory") =>
    IF call.data = NULL \/ ~Representable(call.len, target_pointer_width)
      THEN ret.value = Slice(DANGLING, cast_u32(U32(0, 0), target_pointer_width))
      ELSE /\ ret.value.tag = "slice"
           /\ ret.value.ptr = call.data
           /\ ZeroExtend(ret.value.len) = ZeroExtend(call.len)

\* the one rule for an engine status
StatusRule(status) ==
  IF status = NULL THEN Ok
  ELSE IF status = m3Err_functionLookupFailed THEN ErrFunctionNotFound
  ELSE [tag |-> "Wasm3", ptr |-> status]

\* C6: find_function returns what the status rule gives for a non-null
\* status, FunctionNotFound for a null status with a null handle, and the
\* result of Function::from_raw otherwise; load_module with the module's
\* environment calls the engine and returns what the same rule gives for its
\* link status.
C6_StatusRule ==
  /\ HasReturned("find_function") =>
       ret.value = IF call.status # NULL THEN StatusRule(call.status)
                   ELSE IF call.func_raw = NULL THEN ErrFunctionNotFound
                   ELSE call.from_raw_res
  /\ HasReturned("load_module") /\ call.environment = call.module_env =>
       ret.value.link_called /\ ret.value.result = StatusRule(call.link_status)
\* the engine reported no error and set no handle
C6_Witness ==
  /\ HasReturned("find_function")
  /\ call.status = NULL /\ call.func_raw = NULL
  /\ ret.value = ErrFunctionNotFound

\* C7: each Trap turned into its sentinel and back is the same Trap.
C7_TrapRoundTrip ==
  HasReturned("trap_round_trip") => ret.value = call.trap
\* the trap of the last arm of both matches went round
C7_Witness ==
  HasReturned("trap_round_trip") /\ call.trap = "StackOverflow"
    /\ ret.value = "StackOverflow"

\* C8: into_trap of Error::Wasm3(e) is the Trap whose sentinel is e when
\* there is one and Abort otherwise; into_trap of any other Error is Abort.
C8_IntoTrap ==
  HasReturned("into_trap") =>
    LET e == call.error
        known == {k \in Trap : as_ptr(k) = e.ptr}
    IN /\ ret.value \in Trap
       /\ ret.value = IF e.tag = "Wasm3" /\ known # {}
                        THEN CHOOSE k \in known : TRUE
                        ELSE "Abort"
\* an engine error that is no trap became Abort
C8_Witness ==
  /\ HasReturned("into_trap")
  /\ call.error = ErrWasm3(Wasm3Error(m3Err_mallocFailed))
  /\ ret.value = "Abort"

====
